---- MODULE Spec2Model ----
(***************************************************************************)
(* Trading calendar of tqsdk (src/tqsdk/calendar.py): the process-wide     *)
(* holiday cache, the trading-day classification, the table of continuous  *)
(* contracts aligned on the trading days, and the lookup of the row valid  *)
(* at an instant.                                                          *)
(*                                                                         *)
(* Representation.  A Python value that may be None is a sequence of       *)
(* length 0 (None) or 1 (the value).  A datetime.date is a record          *)
(* [year, month, day].  A naive pandas Timestamp at midnight is the number *)
(* of days since 1970-01-01.  A timezone-aware datetime is a record        *)
(* [local, utcoffset] in seconds.  A str that the code parses is a         *)
(* sequence of one-character strings.  NaN is None.                        *)
(***************************************************************************)
EXTENDS Integers, Sequences, FiniteSets, TLC

VARIABLES
    rest_days_df,            \* module global: None or the frame of the holidays
    chinese_holidays_range,  \* module global: None or <<first day, last day>>
    continuous,              \* TqContCalendar.continuous: None or the roll table
    view,                    \* the TqContCalendar the last constructor call made
    result,                  \* the last call: its arguments, exception and value
    threads                  \* the calls in progress of the concurrent callers

vars == <<rest_days_df, chinese_holidays_range, continuous, view, result, threads>>

None == <<>>
Some(v) == <<v>>

(***************************************************************************)
(* Gregorian calendar, as datetime.date and pandas compute it.             *)
(***************************************************************************)
IsLeap(y) == (y % 4 = 0 /\ y % 100 # 0) \/ y % 400 = 0

DaysInMonth(y, m) ==
    IF m \in {4, 6, 9, 11} THEN 30
    ELSE IF m = 2 THEN (IF IsLeap(y) THEN 29 ELSE 28)
    ELSE 31

LeapsThrough(y) == (y \div 4) - (y \div 100) + (y \div 400)

DaysBeforeYear(y) == 365 * (y - 1970) + LeapsThrough(y - 1) - LeapsThrough(1969)

RECURSIVE DaysBeforeMonth(_, _)
DaysBeforeMonth(y, m) ==
    IF m <= 1 THEN 0 ELSE DaysBeforeMonth(y, m - 1) + DaysInMonth(y, m - 1)

\* the Timestamp (days since the epoch) of the calendar day y-m-d
ToDay(y, m, d) == DaysBeforeYear(y) + DaysBeforeMonth(y, m) + d - 1

ValidYmd(y, m, d) ==
    /\ y \in 1..9999
    /\ m \in 1..12
    /\ d \in 1..DaysInMonth(y, m)

\* datetime.date(y, m, d)
date(y, m, d) == [year |-> y, month |-> m, day |-> d]

\* a datetime.date passed to pandas becomes the Timestamp of that day
DateToDay(dt) == ToDay(dt.year, dt.month, dt.day)

\* Series.dt.dayofweek: Monday is 0, Sunday is 6 (1970-01-01 was a Thursday)
dayofweek(day) == (day + 3) % 7

\* the offset of the market time zone (UTC+8) and the length of a day, in seconds
CstOffset == 28800
SecondsPerDay == 86400

\* Series.dt.tz_localize(_cst_tz): midnight of the day, as wall-clock time of UTC+8
tz_localize(day) == [local |-> day * SecondsPerDay, utcoffset |-> CstOffset]

\* the instant (seconds since the epoch, UTC) of a timezone-aware datetime
Instant(dt) == dt.local - dt.utcoffset

(***************************************************************************)
(* Strings: int(), str.split('-') and strptime with '%Y-%m-%d'.            *)
(***************************************************************************)
DigitVal ==
    [c \in {"0", "1", "2", "3", "4", "5", "6", "7", "8", "9"} |->
        CASE c = "0" -> 0 [] c = "1" -> 1 [] c = "2" -> 2 [] c = "3" -> 3
          [] c = "4" -> 4 [] c = "5" -> 5 [] c = "6" -> 6 [] c = "7" -> 7
          [] c = "8" -> 8 [] OTHER -> 9]

IsDigits(s) == Len(s) > 0 /\ \A i \in 1..Len(s) : s[i] \in DOMAIN DigitVal

RECURSIVE IntOf(_)
IntOf(s) ==
    IF Len(s) = 0 THEN 0
    ELSE 10 * IntOf(SubSeq(s, 1, Len(s) - 1)) + DigitVal[s[Len(s)]]

\* s.split('-'): the fields between the dashes
RECURSIVE Split(_)
Split(s) ==
    IF \A i \in 1..Len(s) : s[i] # "-" THEN <<s>>
    ELSE LET k == CHOOSE i \in 1..Len(s) :
                     s[i] = "-" /\ \A j \in 1..(i - 1) : s[j] # "-"
         IN  <<SubSeq(s, 1, k - 1)>> \o Split(SubSeq(s, k + 1, Len(s)))

\* int(s.split('-')[0]) raises ValueError unless the first field is a number
YearFieldOk(s) == IsDigits(Split(s)[1])
YearField(s) == IntOf(Split(s)[1])

\* pd.to_datetime(s, format='%Y-%m-%d'): %Y is four digits, %m and %d one or two
StrptimeOk(s) ==
    LET f == Split(s)
    IN  /\ Len(f) = 3
        /\ IsDigits(f[1]) /\ Len(f[1]) = 4
        /\ IsDigits(f[2]) /\ Len(f[2]) \in 1..2
        /\ IsDigits(f[3]) /\ Len(f[3]) \in 1..2
        /\ ValidYmd(IntOf(f[1]), IntOf(f[2]), IntOf(f[3]))

Strptime(s) ==
    LET f == Split(s) IN ToDay(IntOf(f[1]), IntOf(f[2]), IntOf(f[3]))

\* pd.to_datetime(n, format='%Y%m%d') of an integer such as 20191231
YmdIntOk(n) ==
    /\ n \in 10000101..99991231
    /\ ValidYmd(n \div 10000, (n \div 100) % 100, n % 100)

YmdInt(n) == ToDay(n \div 10000, (n \div 100) % 100, n % 100)

(***************************************************************************)
(* The two remote sources.  A response is what requests.get would return:  *)
(* raises (the request itself fails), the HTTP status, whether the body is *)
(* JSON, and the decoded body.  The holiday body is a list of strings, the *)
(* roll-table body maps a product to a list of <<yyyymmdd, underlying>>.   *)
(***************************************************************************)
HolidayUrl == "TQ_CHINESE_HOLIDAY_URL"
ContTableUrl == "TQ_CONT_TABLE_URL"

Response(raises, status, isJson, body) ==
    [raises |-> raises, status_code |-> status, is_json |-> isJson, json |-> body]

\* requests.get(url, ...) raises when no response arrives
rsp_get_err(rsp) == IF rsp.raises THEN "ConnectionError" ELSE ""

\* rsp.raise_for_status()
raise_for_status_err(rsp) == IF rsp.status_code >= 400 THEN "HTTPError" ELSE ""

\* rsp.json()
rsp_json_err(rsp) == IF rsp.is_json THEN "" ELSE "JSONDecodeError"

(***************************************************************************)
(* _init_chinese_rest_days                                                 *)
(***************************************************************************)
\* lines 27-28: chinese_holidays[0], chinese_holidays[-1], int(), date()
holidays_range_err(hs) ==
    IF Len(hs) = 0 THEN "IndexError"
    ELSE IF /\ YearFieldOk(hs[1]) /\ YearField(hs[1]) \in 1..9999
            /\ YearFieldOk(hs[Len(hs)]) /\ YearField(hs[Len(hs)]) \in 1..9999
         THEN ""
         ELSE "ValueError"

\* lines 27-29: the first day of the first year, the last day of the last year
holidays_range(hs) ==
    <<date(YearField(hs[1]), 1, 1), date(YearField(hs[Len(hs)]), 12, 31)>>

\* line 30: pd.to_datetime(chinese_holidays, format='%Y-%m-%d')
to_datetime_err(hs) ==
    IF \A i \in 1..Len(hs) : StrptimeOk(hs[i]) THEN "" ELSE "ValueError"

\* line 30: the frame with its date column
holidays_frame(hs) ==
    [columns |-> {"date"}, date |-> [i \in 1..Len(hs) |-> Strptime(hs[i])]]

\* line 31: rest_days_df['trading_restdays'] = False
add_restdays_column(df) ==
    [df EXCEPT !.columns = df.columns \cup {"trading_restdays"}]

\* What a run of the function leaves: the two globals, the exception it raises
\* (err), the requests it issued and the value it returns.
InitOutcome(d, r, e, q, v) ==
    [rest_days_df |-> d, chinese_holidays_range |-> r, err |-> e,
     requests |-> q, ret |-> v]

\* lines 24-32: the body of the if, run without interruption
fetch_chinese_rest_days(rng, rsp) ==
    LET raised(r, e) == InitOutcome(None, r, e, <<HolidayUrl>>, None)
    IN  IF rsp_get_err(rsp) # "" THEN raised(rng, rsp_get_err(rsp))
        ELSE IF rsp_json_err(rsp) # "" THEN raised(rng, rsp_json_err(rsp))
        ELSE IF holidays_range_err(rsp.json) # ""
             THEN raised(rng, holidays_range_err(rsp.json))
        ELSE LET r == Some(holidays_range(rsp.json))
             IN  IF to_datetime_err(rsp.json) # ""
                 THEN raised(r, to_datetime_err(rsp.json))
                 ELSE InitOutcome(Some(add_restdays_column(holidays_frame(rsp.json))),
                                  r, "", <<HolidayUrl>>, r)

\* a variant that requests the list on every call
init_chinese_rest_days_uncached(df, rng, rsp) == fetch_chinese_rest_days(rng, rsp)

\* lines 23-32: the whole function, run without interruption
init_chinese_rest_days(df, rng, rsp) ==
    IF df # None THEN InitOutcome(df, rng, "", <<>>, rng)
    ELSE fetch_chinese_rest_days(rng, rsp)

(***************************************************************************)
(* _get_trading_calendar                                                   *)
(***************************************************************************)
\* pd.date_range(start, end, freq="D"): empty when end is before start
date_range(start, end) == [i \in 1..(end - start + 1) |-> start + i - 1]

isin(x, column) == \E j \in DOMAIN column : column[j] = x

\* a variant that takes Saturday for a working day
trading_calendar_sat(df, start_dt, end_dt) ==
    LET days == date_range(DateToDay(start_dt), DateToDay(end_dt))
    IN  [i \in DOMAIN days |->
            [date |-> days[i],
             trading |-> dayofweek(days[i]) <= 5 /\ ~isin(days[i], df.date)]]

\* lines 48-51, once rest_days_df is loaded
trading_calendar(df, start_dt, end_dt) ==
    LET days == date_range(DateToDay(start_dt), DateToDay(end_dt))
    IN  [i \in DOMAIN days |->
            [date |-> days[i],
             trading |-> dayofweek(days[i]) < 5 /\ ~isin(days[i], df.date)]]

(***************************************************************************)
(* TqContCalendar._ensure_cont_on_df                                       *)
(***************************************************************************)
\* float('nan'): what pandas leaves in a cell that no value is assigned to
NaN == "nan"

\* the key the class gives a product of the roll table
ContKey(k) == "KQ.m@" \o k

RECURSIVE SortedSeq(_)
SortedSeq(S) ==
    IF S = {} THEN <<>>
    ELSE LET m == CHOOSE x \in S : \A y \in S : x <= y
         IN  <<m>> \o SortedSeq(S \ {m})

\* line 96: pd.to_datetime(temp_df['date'], format='%Y%m%d')
roll_dates_err(history) ==
    IF \A i \in 1..Len(history) : YmdIntOk(history[i][1]) THEN "" ELSE "ValueError"

\* lines 95-97: the roll table of one continuous contract as a frame
temp_df_of(history) ==
    [i \in 1..Len(history) |->
        [date |-> YmdInt(history[i][1]),
         underlying |-> Some(history[i][2]),
         cst_date |-> tz_localize(YmdInt(history[i][1]))]]

\* line 98: pd.merge(temp_df, self.df, sort=True, how="outer", on="_cst_date").
\* The keys in ascending order; under one key every left row with every right
\* row, in the order of the left frame; a key of one side only has NaN in the
\* columns of the other.  Of the merged columns only _cst_date and underlying
\* are read afterwards.
RECURSIVE merge_rows(_, _, _)
merge_rows(keys, left, right) ==
    IF keys = <<>> THEN <<>>
    ELSE LET k == Head(keys)
             l == SelectSeq(left, LAMBDA r : Instant(r.cst_date) = k)
             r == SelectSeq(right, LAMBDA x : Instant(x.cst_date) = k)
             here ==
                 IF l = <<>>
                 THEN [i \in 1..Len(r) |->
                          [cst_date |-> r[i].cst_date, underlying |-> None]]
                 ELSE IF r = <<>>
                 THEN [i \in 1..Len(l) |->
                          [cst_date |-> l[i].cst_date, underlying |-> l[i].underlying]]
                 ELSE [i \in 1..(Len(l) * Len(r)) |->
                          [cst_date |-> l[((i - 1) \div Len(r)) + 1].cst_date,
                           underlying |-> l[((i - 1) \div Len(r)) + 1].underlying]]
         IN  here \o merge_rows(Tail(keys), left, right)

merge_outer(left, right) ==
    merge_rows(SortedSeq({Instant(left[i].cst_date) : i \in DOMAIN left}
                         \cup {Instant(right[i].cst_date) : i \in DOMAIN right}),
               left, right)

\* line 99: ffill of the underlying column
ffill(rows) ==
    LET f[i \in 0..Len(rows)] ==
            IF i = 0 THEN None
            ELSE IF rows[i].underlying # None THEN rows[i].underlying
            ELSE f[i - 1]
    IN  [i \in 1..Len(rows) |-> [rows[i] EXCEPT !.underlying = f[i]]]

\* line 100: fillna(value="")
fillna(rows) ==
    [i \in 1..Len(rows) |->
        [rows[i] EXCEPT !.underlying = IF @ = None THEN Some("") ELSE @]]

\* line 104: the underlying of the merged rows whose _cst_date is one of self.df
restrict_to_df(rows, df) ==
    LET keep == SelectSeq(rows, LAMBDA r :
                    \E j \in DOMAIN df : Instant(df[j].cst_date) = Instant(r.cst_date))
    IN  [i \in 1..Len(keep) |-> keep[i].underlying[1]]

\* line 105: self.df[cont] = pd.Series(s.values): the values are laid on the rows
\* of self.df by position; a value past the last row is dropped and a row past
\* the last value gets NaN
assign_column(df, cont, s) ==
    [i \in 1..Len(df) |->
        [df[i] EXCEPT !.cols =
            [c \in DOMAIN df[i].cols \cup {cont} |->
                IF c = cont THEN (IF i <= Len(s) THEN s[i] ELSE NaN)
                ELSE df[i].cols[c]]]]

\* lines 95-105
ensure_cont_on_df(df, cont, history) ==
    assign_column(df, cont,
        restrict_to_df(fillna(ffill(merge_outer(temp_df_of(history), df))), df))

(***************************************************************************)
(* TqContCalendar.__init__                                                 *)
(***************************************************************************)
\* a variant that keeps every day
all_rows(calendar) ==
    [i \in 1..Len(calendar) |->
        [date |-> calendar[i].date, cst_date |-> tz_localize(calendar[i].date),
         cols |-> [c \in {} |-> ""]]]

\* lines 78-80: only the trading days, with the _cst_date column
trading_rows(calendar) ==
    LET t == SelectSeq(calendar, LAMBDA r : r.trading)
    IN  [i \in 1..Len(t) |->
            [date |-> t[i].date, cst_date |-> tz_localize(t[i].date),
             cols |-> [c \in {} |-> ""]]]

\* lines 82-84: the request for the roll table and what it raises
cont_fetch_err(rsp) ==
    IF rsp_get_err(rsp) # "" THEN rsp_get_err(rsp)
    ELSE IF raise_for_status_err(rsp) # "" THEN raise_for_status_err(rsp)
    ELSE rsp_json_err(rsp)

\* line 84: {f"KQ.m@{k}": v for k, v in rsp.json().items()}
cont_table(json) ==
    [c \in {ContKey(k) : k \in DOMAIN json} |->
        json[CHOOSE k \in DOMAIN json : ContKey(k) = c]]

\* a variant that looks at the first symbol only
first_symbol_ok(symbols, table) ==
    symbols = <<>> \/ symbols[1] \in DOMAIN table

\* line 86: all([s in continuous.keys() for s in symbols])
symbols_ok(symbols, table) ==
    \A i \in 1..Len(symbols) : symbols[i] \in DOMAIN table

\* line 88: the keys of the table when no symbols are given (the columns do not
\* depend on the order in which they are attached)
RECURSIVE keys_of(_)
keys_of(S) ==
    IF S = {} THEN <<>>
    ELSE LET k == CHOOSE x \in S : TRUE IN <<k>> \o keys_of(S \ {k})

\* lines 90-91: the first exception of the loop, if any: continuous[cont] of a
\* key that the table lacks, or a roll date that is no date
RECURSIVE attach_err(_, _)
attach_err(symbols, table) ==
    IF symbols = <<>> THEN ""
    ELSE IF Head(symbols) \notin DOMAIN table THEN "KeyError"
    ELSE IF roll_dates_err(table[Head(symbols)]) # ""
         THEN roll_dates_err(table[Head(symbols)])
         ELSE attach_err(Tail(symbols), table)

\* lines 90-91
RECURSIVE attach_all(_, _, _)
attach_all(df, symbols, table) ==
    IF symbols = <<>> THEN df
    ELSE attach_all(ensure_cont_on_df(df, Head(symbols), table[Head(symbols)]),
                    Tail(symbols), table)

\* line 89: self.df.iloc[0]._cst_date, self.df.iloc[-1]._cst_date
first_last_err(df) == IF df = <<>> THEN "IndexError" ELSE ""

\* a variant that reads the first row twice
first_first(df) == <<df[1].cst_date, df[1].cst_date>>

first_last(df) == <<df[1].cst_date, df[Len(df)].cst_date>>

\* the constructor, run without interruption.  symbols is None or Some(list).
\* self is None when the constructor raises.
TqContCalendar_init(g, start_dt, end_dt, symbols, hrsp, crsp) ==
    LET h == init_chinese_rest_days(g.rest_days_df, g.chinese_holidays_range, hrsp)
        out(c, e, q, v, m) ==
            [rest_days_df |-> h.rest_days_df,
             chinese_holidays_range |-> h.chinese_holidays_range,
             continuous |-> c, err |-> e, requests |-> h.requests \o q,
             self |-> v, message |-> m]
    IN  IF h.err # "" THEN out(g.continuous, h.err, <<>>, None, None)
        ELSE
        LET df == trading_rows(trading_calendar(h.rest_days_df[1], start_dt, end_dt))
            fetch == g.continuous = None
            q == IF fetch THEN <<ContTableUrl>> ELSE <<>>
        IN  IF fetch /\ cont_fetch_err(crsp) # ""
            THEN out(None, cont_fetch_err(crsp), q, None, None)
            ELSE
            LET table == IF fetch THEN cont_table(crsp.json) ELSE g.continuous[1]
                c == Some(table)
            IN  IF symbols # None /\ ~symbols_ok(symbols[1], table)
                THEN out(c, "Exception", q, None, symbols)
                ELSE
                LET syms == IF symbols = None THEN keys_of(DOMAIN table)
                            ELSE symbols[1]
                IN  IF first_last_err(df) # ""
                    THEN out(c, first_last_err(df), q, None, None)
                    ELSE IF attach_err(syms, table) # ""
                    THEN out(c, attach_err(syms, table), q, None, None)
                    ELSE out(c, "", q,
                             Some([df |-> attach_all(df, syms, table),
                                   start_dt |-> first_last(df)[1],
                                   end_dt |-> first_last(df)[2]]),
                             None)

(***************************************************************************)
(* TqContCalendar._get_cont_underlying_on_date                             *)
(***************************************************************************)
\* tqsdk.datetime._timestamp_nano_to_datetime: the instant as a datetime of the
\* market time zone (the instant is counted in seconds here)
timestamp_nano_to_datetime(t) == [local |-> t + CstOffset, utcoffset |-> CstOffset]

\* a variant that takes only the later rows
gt(a, b) == Instant(a) > Instant(b)

\* Series.ge of two timezone-aware datetimes compares their instants
ge(a, b) == Instant(a) >= Instant(b)

\* lines 111-113: the rows at or after the instant, cut to the first (iloc[0:1])
get_cont_underlying_on_date(self, trading_day) ==
    LET dt == timestamp_nano_to_datetime(trading_day)
        df == SelectSeq(self.df, LAMBDA r : ge(r.cst_date, dt))
    IN  IF df = <<>> THEN <<>> ELSE <<df[1]>>

(***************************************************************************)
(* Inputs.                                                                 *)
(***************************************************************************)
\* the longest roll table of a continuous contract
MaxRolls == 3

\* "2019-12-31", "2020-01-01", "2020-01-32" and "n/a"
Str_2019_12_31 == <<"2", "0", "1", "9", "-", "1", "2", "-", "3", "1">>
Str_2020_01_01 == <<"2", "0", "2", "0", "-", "0", "1", "-", "0", "1">>
Str_2020_01_32 == <<"2", "0", "2", "0", "-", "0", "1", "-", "3", "2">>
Str_na == <<"n", "/", "a">>

NoResponse == Response(TRUE, 0, FALSE, <<>>)

HolidayBodies ==
    { <<Str_2020_01_01>>, <<Str_2019_12_31, Str_2020_01_01>>, <<>>,
      <<Str_2019_12_31, Str_2020_01_32>>, <<Str_na>> }

\* no response, a page that is not JSON, and the bodies under status 200 and 500
HolidayResponses ==
    {NoResponse, Response(FALSE, 200, FALSE, <<>>), Response(FALSE, 404, FALSE, <<>>)}
    \cup {Response(FALSE, 200, TRUE, b) : b \in HolidayBodies}
    \cup {Response(FALSE, 500, TRUE, <<Str_2020_01_01>>)}

GoodHolidayResponses ==
    {Response(FALSE, 200, TRUE, <<Str_2020_01_01>>),
     Response(FALSE, 200, TRUE, <<Str_2019_12_31, Str_2020_01_01>>)}

\* Monday 2019-12-30 (twice) and Wednesday 2020-01-01, a holiday
RollEntries ==
    { <<20191230, "DCE.a2001">>, <<20191230, "DCE.a2005">>, <<20200101, "DCE.a2009">> }

RECURSIVE SeqsUpTo(_, _)
SeqsUpTo(S, n) ==
    IF n = 0 THEN {<<>>}
    ELSE LET shorter == SeqsUpTo(S, n - 1)
         IN  shorter \cup {Append(h, e) : h \in shorter, e \in S}

Histories == SeqsUpTo(RollEntries, MaxRolls)

\* Saturday 2019-12-28 and Thursday 2020-01-02
EgHistory == << <<20191228, "DCE.eg2001">>, <<20200102, "DCE.eg2005">> >>

ContBody(h) == [k \in {"DCE.a", "DCE.eg"} |-> IF k = "DCE.a" THEN h ELSE EgHistory]

GoodContResponses == {Response(FALSE, 200, TRUE, ContBody(h)) : h \in Histories}

\* no response, a page that is not JSON, an error status, a table with the date
\* 20191232, and one good table
FewContResponses ==
    {NoResponse, Response(FALSE, 200, FALSE, <<>>),
     Response(FALSE, 500, TRUE, ContBody(<<>>)),
     Response(FALSE, 200, TRUE, [k \in {"DCE.a"} |-> << <<20191232, "DCE.a2001">> >>]),
     Response(FALSE, 200, TRUE,
              ContBody(<< <<20191230, "DCE.a2001">>, <<20200101, "DCE.a2009">> >>))}

StartDates == {date(2019, 12, 28), date(2020, 1, 1)}
EndDates == {date(2019, 12, 29), date(2020, 1, 1), date(2020, 1, 3)}

SymbolLists ==
    { None, Some(<<"KQ.m@DCE.a">>), Some(<<"KQ.m@DCE.a", "KQ.m@SHFE.cu">>),
      Some(<<"DCE.a", "KQ.m@DCE.a", "KQ.m@SHFE.cu">>) }

FewSymbolLists == {None, Some(<<"KQ.m@DCE.a", "KQ.m@SHFE.cu">>)}

\* midnight in the market time zone of 2019-12-28, 2020-01-01, 2020-01-02 and
\* 2020-01-04, and ten o'clock of 2020-01-02
TradingDayArgs ==
    {ToDay(2019, 12, 28) * SecondsPerDay - CstOffset,
     ToDay(2020, 1, 1) * SecondsPerDay - CstOffset,
     ToDay(2020, 1, 2) * SecondsPerDay - CstOffset,
     ToDay(2020, 1, 2) * SecondsPerDay - CstOffset + 36000,
     ToDay(2020, 1, 4) * SecondsPerDay - CstOffset}

(***************************************************************************)
(* The sequential caller: one call at a time, each run to its end.         *)
(***************************************************************************)
Call(op, args, rsp, err, requests, ret, message) ==
    [op |-> op, args |-> args, rsp |-> rsp, err |-> err, requests |-> requests,
     ret |-> ret, message |-> message]

Init ==
    /\ rest_days_df = None
    /\ chinese_holidays_range = None
    /\ continuous = None
    /\ view = None
    /\ result = Call("import", <<>>, NoResponse, "", <<>>, None, None)
    /\ threads = <<>>

\* the response a request gets, when the call issues one
HolidayAnswers(responses) == IF rest_days_df = None THEN responses ELSE {NoResponse}
ContAnswers(responses) == IF continuous = None THEN responses ELSE {NoResponse}

\* _init_chinese_rest_days()
EnsureLoaded(holidayRsps) ==
    \E rsp \in HolidayAnswers(holidayRsps) :
    \E o \in {init_chinese_rest_days(rest_days_df, chinese_holidays_range, rsp)} :
        /\ rest_days_df' = o.rest_days_df
        /\ chinese_holidays_range' = o.chinese_holidays_range
        /\ result' = Call("init_chinese_rest_days", <<>>, rsp, o.err,
                          o.requests, o.ret, None)
        /\ UNCHANGED <<continuous, view, threads>>

\* _get_trading_calendar(start_dt, end_dt)
GetTradingCalendar(holidayRsps) ==
    \E start_dt \in StartDates, end_dt \in EndDates :
    \E rsp \in HolidayAnswers(holidayRsps) :
    \E o \in {init_chinese_rest_days(rest_days_df, chinese_holidays_range, rsp)} :
        /\ rest_days_df' = o.rest_days_df
        /\ chinese_holidays_range' = o.chinese_holidays_range
        /\ result' = Call("get_trading_calendar", <<start_dt, end_dt>>, rsp,
                          o.err, o.requests,
                          IF o.err # "" THEN None
                          ELSE Some(trading_calendar(o.rest_days_df[1],
                                                     start_dt, end_dt)),
                          None)
        /\ UNCHANGED <<continuous, view, threads>>

\* TqContCalendar(start_dt, end_dt, symbols)
Build(holidayRsps, contRsps, symbolLists) ==
    \E start_dt \in StartDates, end_dt \in EndDates, symbols \in symbolLists :
    \E hrsp \in HolidayAnswers(holidayRsps), crsp \in ContAnswers(contRsps) :
    \E o \in {TqContCalendar_init(
                 [rest_days_df |-> rest_days_df,
                  chinese_holidays_range |-> chinese_holidays_range,
                  continuous |-> continuous],
                 start_dt, end_dt, symbols, hrsp, crsp)} :
        /\ rest_days_df' = o.rest_days_df
        /\ chinese_holidays_range' = o.chinese_holidays_range
        /\ continuous' = o.continuous
        /\ view' = o.self
        /\ result' = Call("TqContCalendar", <<start_dt, end_dt, symbols>>, hrsp,
                          o.err, o.requests, None, o.message)
        /\ UNCHANGED threads

\* _get_cont_underlying_on_date(trading_day) on the calendar last constructed
Resolve ==
    /\ view # None
    /\ \E trading_day \in TradingDayArgs :
        /\ result' = Call("get_cont_underlying_on_date", <<trading_day>>, NoResponse,
                          "", <<>>, get_cont_underlying_on_date(view[1], trading_day),
                          None)
        /\ UNCHANGED <<rest_days_df, chinese_holidays_range, continuous, view, threads>>

\* every call, against servers that may fail; the roll tables are few
Next ==
    \/ EnsureLoaded(HolidayResponses)
    \/ GetTradingCalendar(HolidayResponses)
    \/ Build(HolidayResponses, FewContResponses, FewSymbolLists)
    \/ Resolve

Spec == Init /\ [][Next]_vars

\* the constructor and the lookup, against servers that answer; every roll table
NextAlign ==
    \/ Build(GoodHolidayResponses, GoodContResponses, SymbolLists)
    \/ Resolve

SpecAlign == Init /\ [][NextAlign]_vars

(***************************************************************************)
(* Concurrent callers.  Each thread runs one constructor call; a step is   *)
(* one statement of _init_chinese_rest_days or of the constructor's        *)
(* loading of the roll table, and the threads interleave between           *)
(* statements.  The servers answer.                                        *)
(***************************************************************************)
NumThreads == 2

Threads == 1..NumThreads

ThreadHolidayResponses == GoodHolidayResponses

ThreadContResponses ==
    {Response(FALSE, 200, TRUE, ContBody(<<>>)),
     Response(FALSE, 200, TRUE, ContBody(<< <<20191230, "DCE.a2001">> >>))}

ThreadStart == date(2019, 12, 28)
ThreadEnd == date(2020, 1, 3)

InitConc ==
    /\ rest_days_df = None
    /\ chinese_holidays_range = None
    /\ continuous = None
    /\ view = None
    /\ result = Call("import", <<>>, NoResponse, "", <<>>, None, None)
    /\ threads = [t \in Threads |->
                     [pc |-> "line 23", rsp |-> NoResponse, requests |-> <<>>,
                      writes |-> <<>>, saw |-> None, df |-> None]]

Goto(t, label) == threads' = [threads EXCEPT ![t].pc = label]

\* line 23: if rest_days_df is None
TestRestDays(t) ==
    /\ threads[t].pc = "line 23"
    /\ Goto(t, IF rest_days_df = None THEN "line 25" ELSE "line 32")
    /\ UNCHANGED <<rest_days_df, chinese_holidays_range, continuous, view, result>>

\* lines 24-26: the request and rsp.json()
GetHolidays(t) ==
    /\ threads[t].pc = "line 25"
    /\ \E rsp \in ThreadHolidayResponses :
           threads' = [threads EXCEPT ![t].pc = "line 27", ![t].rsp = rsp,
                           ![t].requests = Append(@, HolidayUrl)]
    /\ UNCHANGED <<rest_days_df, chinese_holidays_range, continuous, view, result>>

\* lines 27-29: chinese_holidays_range = (_first_day, _last_day)
SetRange(t) ==
    /\ threads[t].pc = "line 27"
    /\ chinese_holidays_range' = Some(holidays_range(threads[t].rsp.json))
    /\ threads' = [threads EXCEPT ![t].pc = "line 30",
                       ![t].writes = Append(@, "chinese_holidays_range")]
    /\ UNCHANGED <<rest_days_df, continuous, view, result>>

\* line 30: rest_days_df = pd.DataFrame(...)
SetRestDays(t) ==
    /\ threads[t].pc = "line 30"
    /\ rest_days_df' = Some(holidays_frame(threads[t].rsp.json))
    /\ threads' = [threads EXCEPT ![t].pc = "line 31",
                       ![t].writes = Append(@, "rest_days_df")]
    /\ UNCHANGED <<chinese_holidays_range, continuous, view, result>>

\* line 31: rest_days_df['trading_restdays'] = False, on the frame that the
\* global names at that moment
AddColumn(t) ==
    /\ threads[t].pc = "line 31"
    /\ rest_days_df' = Some(add_restdays_column(rest_days_df[1]))
    /\ Goto(t, "line 32")
    /\ UNCHANGED <<chinese_holidays_range, continuous, view, result>>

\* line 32: return chinese_holidays_range
Return(t) ==
    /\ threads[t].pc = "line 32"
    /\ Goto(t, "line 48")
    /\ UNCHANGED <<rest_days_df, chinese_holidays_range, continuous, view, result>>

\* lines 48-51 and 77-80: the calendar, from rest_days_df as it is
Classify(t) ==
    /\ threads[t].pc = "line 48"
    /\ threads' = [threads EXCEPT ![t].pc = "line 81", ![t].saw = rest_days_df,
                       ![t].df = Some(trading_rows(trading_calendar(
                                         rest_days_df[1], ThreadStart, ThreadEnd)))]
    /\ UNCHANGED <<rest_days_df, chinese_holidays_range, continuous, view, result>>

\* line 81: if TqContCalendar.continuous is None
TestContinuous(t) ==
    /\ threads[t].pc = "line 81"
    /\ Goto(t, IF continuous = None THEN "line 82" ELSE "line 85")
    /\ UNCHANGED <<rest_days_df, chinese_holidays_range, continuous, view, result>>

\* lines 82-83: the request and raise_for_status()
GetContinuous(t) ==
    /\ threads[t].pc = "line 82"
    /\ \E rsp \in ThreadContResponses :
           threads' = [threads EXCEPT ![t].pc = "line 84", ![t].rsp = rsp,
                           ![t].requests = Append(@, ContTableUrl)]
    /\ UNCHANGED <<rest_days_df, chinese_holidays_range, continuous, view, result>>

\* line 84: TqContCalendar.continuous = {...}
SetContinuous(t) ==
    /\ threads[t].pc = "line 84"
    /\ continuous' = Some(cont_table(threads[t].rsp.json))
    /\ threads' = [threads EXCEPT ![t].pc = "line 85",
                       ![t].writes = Append(@, "continuous")]
    /\ UNCHANGED <<rest_days_df, chinese_holidays_range, view, result>>

NextConc ==
    \E t \in Threads :
        \/ TestRestDays(t)
        \/ GetHolidays(t)
        \/ SetRange(t)
        \/ SetRestDays(t)
        \/ AddColumn(t)
        \/ Return(t)
        \/ Classify(t)
        \/ TestContinuous(t)
        \/ GetContinuous(t)
        \/ SetContinuous(t)

SpecConc == InitConc /\ [][NextConc]_vars

(***************************************************************************)
(* Properties.  The state records the last call, so a property of a call   *)
(* is a property of the state it leaves.                                   *)
(***************************************************************************)
IsBuild == result.op = "TqContCalendar"
Built == IsBuild /\ result.err = ""
IsCalendar == result.op = "get_trading_calendar"
IsInit == result.op = "init_chinese_rest_days"
IsResolve == result.op = "get_cont_underlying_on_date"

ArgStart == DateToDay(result.args[1])
ArgEnd == DateToDay(result.args[2])
ArgSymbols == result.args[3]

Holidays == {rest_days_df[1].date[j] : j \in DOMAIN rest_days_df[1].date}
IsTradingDay(d) == dayofweek(d) \notin {5, 6} /\ d \notin Holidays

Requested(url) == \E i \in DOMAIN result.requests : result.requests[i] = url

\* the instant of midnight, market time, of a row's day
RowInstant(r) == r.date * 86400 - 8 * 3600

RollDay(e) == ToDay(e[1] \div 10000, (e[1] \div 100) % 100, e[1] % 100)

\* the keys asked for: the symbols given, or every key of the table
Wanted ==
    IF ArgSymbols = None THEN DOMAIN continuous[1]
    ELSE {ArgSymbols[1][i] : i \in DOMAIN ArgSymbols[1]}

Invalid == Wanted \ DOMAIN continuous[1]

(* C1: the table of a constructed calendar holds exactly the trading days of
   the range asked for, each once, in ascending order, whatever roll tables
   were attached; every row carries one cell for each key asked for. *)
C1_OneRowPerTradingDay ==
    Built =>
        LET df == view[1].df
        IN  /\ \A i \in DOMAIN df :
                   df[i].date \in ArgStart..ArgEnd /\ IsTradingDay(df[i].date)
            /\ \A d \in ArgStart..ArgEnd :
                   IsTradingDay(d) => \E i \in DOMAIN df : df[i].date = d
            /\ \A i, j \in DOMAIN df : i < j => df[i].date < df[j].date
            /\ \A i \in DOMAIN df : DOMAIN df[i].cols = Wanted

\* a table of four rows with a column whose roll table has a roll on a Saturday
\* and a column whose roll table has a roll on a holiday and two on one day
C1_Witness ==
    /\ Built
    /\ Len(view[1].df) = 4
    /\ \E c \in Wanted : \E k \in DOMAIN continuous[1][c] :
           dayofweek(RollDay(continuous[1][c][k])) = 5
    /\ \E c \in Wanted :
           /\ \E k \in DOMAIN continuous[1][c] :
                  RollDay(continuous[1][c][k]) \in Holidays
           /\ \E k, m \in DOMAIN continuous[1][c] :
                  k # m /\ RollDay(continuous[1][c][k]) = RollDay(continuous[1][c][m])

\* the cells the roll table h allows on day d
ExpectedCells(h, d) ==
    IF \A k \in DOMAIN h : RollDay(h[k]) > d THEN {""}
    ELSE {h[k][2] : k \in {k \in DOMAIN h :
                              /\ RollDay(h[k]) <= d
                              /\ \A m \in DOMAIN h :
                                     RollDay(h[m]) <= d => RollDay(h[m]) <= RollDay(h[k])}}

(* C2: every cell of every column is the underlying of the roll with the
   greatest roll date not after the row's day, and empty when there is none. *)
C2_ForwardFill ==
    Built =>
        \A i \in DOMAIN view[1].df : \A c \in DOMAIN view[1].df[i].cols :
            view[1].df[i].cols[c]
                \in ExpectedCells(continuous[1][c], view[1].df[i].date)

(* C7 as claimed: a constructor call with a symbol that the roll table lacks
   raises, makes no calendar, and reports exactly the symbols that are
   lacking; with every symbol known it does not raise that error; with no
   symbols it attaches every key. *)
C7_ReportsInvalidKeys ==
    (IsBuild /\ rest_days_df # None /\ continuous # None) =>
        /\ Invalid # {} =>
              /\ result.err = "Exception"
              /\ view = None
              /\ {result.message[1][i] : i \in DOMAIN result.message[1]} = Invalid
        /\ Invalid = {} => result.err # "Exception"
        /\ (result.err = "" /\ ArgSymbols = None) =>
              \A i \in DOMAIN view[1].df :
                  DOMAIN view[1].df[i].cols = DOMAIN continuous[1]

(* C7 as the code has it: the same, but the error reports the whole list of
   symbols that was asked for. *)
C7_ReportsAllSymbols ==
    (IsBuild /\ rest_days_df # None /\ continuous # None) =>
        /\ Invalid # {} =>
              /\ result.err = "Exception"
              /\ view = None
              /\ result.message = ArgSymbols
        /\ Invalid = {} => result.err # "Exception"
        /\ (result.err = "" /\ ArgSymbols = None) =>
              \A i \in DOMAIN view[1].df :
                  DOMAIN view[1].df[i].cols = DOMAIN continuous[1]

\* a call with a known symbol between two that are lacking
C7_Witness ==
    /\ IsBuild /\ rest_days_df # None /\ continuous # None
    /\ Cardinality(Invalid) = 2
    /\ Wanted \ Invalid # {}
    /\ result.err = "Exception"

(* C8: no calendar is returned with a column whose roll table has two rolls
   on one of the table's days (the join then has more rows than the table). *)
C8_AbortOnMismatch ==
    Built =>
        \A c \in Wanted : \A i \in DOMAIN view[1].df :
            Cardinality({k \in DOMAIN continuous[1][c] :
                            RollDay(continuous[1][c][k]) = view[1].df[i].date}) <= 1

(* C10: a constructed calendar has at least one row, start_dt is the day of
   its first row and end_dt the day of its last; a call over a range without
   a trading day raises and makes no calendar. *)
C10_NonEmptyView ==
    /\ view # None =>
          LET df == view[1].df
          IN  /\ Len(df) >= 1
              /\ Instant(view[1].start_dt) = RowInstant(df[1])
              /\ Instant(view[1].end_dt) = RowInstant(df[Len(df)])
              /\ Instant(view[1].start_dt) <= Instant(view[1].end_dt)
    /\ (/\ IsBuild /\ rest_days_df # None
        /\ \A d \in ArgStart..ArgEnd : ~IsTradingDay(d))
       => (result.err # "" /\ view = None)

\* a call over a Saturday and a Sunday, or over a holiday, with known symbols
C10_Witness ==
    /\ IsBuild /\ rest_days_df # None /\ continuous # None
    /\ ArgStart <= ArgEnd
    /\ \A d \in ArgStart..ArgEnd : ~IsTradingDay(d)
    /\ Invalid = {}
    /\ result.err = "IndexError"

C4_FirstRow ==
    IsResolve =>
        LET t == result.args[1]
            df == view[1].df
            later == {i \in DOMAIN df : RowInstant(df[i]) >= t}
        IN  /\ result.err = ""
            /\ IF later = {} THEN result.ret = <<>>
               ELSE result.ret = <<df[CHOOSE i \in later : \A j \in later : i <= j]>>

(* C4: the lookup returns the first row whose day begins at or after the
   instant, no row when the instant is after the last row, and leaves the
   calendar as it was. *)
C4_Resolve ==
    /\ []C4_FirstRow
    /\ [][result'.op = "get_cont_underlying_on_date" => view' = view]_vars

\* an instant that is the midnight of a row, which is the row returned, the
\* table having an earlier row
C4_Witness ==
    /\ IsResolve
    /\ result.ret # <<>>
    /\ RowInstant(result.ret[1]) = result.args[1]
    /\ result.ret[1] # view[1].df[1]

(* C3: the calendar of a range has one row for each day of the range, in
   order, and a day is a trading day when it is neither a Saturday, a Sunday
   nor a loaded holiday; no range makes the call raise once the holidays are
   loaded. *)
C3_Classification ==
    IsCalendar =>
        /\ rest_days_df # None => result.err = ""
        /\ (result.err = "" /\ ArgStart <= ArgEnd) =>
              LET df == result.ret[1]
              IN  /\ Len(df) = ArgEnd - ArgStart + 1
                  /\ \A i \in DOMAIN df :
                         /\ df[i].date = ArgStart + i - 1
                         /\ df[i].trading = IsTradingDay(df[i].date)

\* a range with a Saturday, a holiday, and a working day before the first day
\* of chinese_holidays_range
C3_Witness ==
    /\ IsCalendar /\ result.err = ""
    /\ \E i \in DOMAIN result.ret[1] : dayofweek(result.ret[1][i].date) = 5
    /\ \E i \in DOMAIN result.ret[1] : result.ret[1][i].date \in Holidays
    /\ \E i \in DOMAIN result.ret[1] :
           /\ result.ret[1][i].date < DateToDay(chinese_holidays_range[1][1])
           /\ result.ret[1][i].trading

(* C6: once the holidays are loaded no call requests them again or changes
   rest_days_df or chinese_holidays_range, and _init_chinese_rest_days returns
   the range as loaded; once the roll table is loaded no call requests it
   again or changes it. *)
C6_LoadedOnce ==
    [][ /\ rest_days_df # None =>
              /\ rest_days_df' = rest_days_df
              /\ chinese_holidays_range' = chinese_holidays_range
              /\ \A i \in DOMAIN result'.requests : result'.requests[i] # HolidayUrl
              /\ result'.op = "init_chinese_rest_days" =>
                     (result'.err = "" /\ result'.ret = chinese_holidays_range)
        /\ continuous # None =>
              /\ continuous' = continuous
              /\ \A i \in DOMAIN result'.requests : result'.requests[i] # ContTableUrl
      ]_vars

\* a constructor call that found both caches loaded
C6_Witness ==
    /\ IsBuild /\ result.err = ""
    /\ result.requests = <<>>

IsIsoDate(s) ==
    /\ Len(s) = 10
    /\ s[5] = "-" /\ s[8] = "-"
    /\ \A i \in {1, 2, 3, 4, 6, 7, 9, 10} : s[i] \in DOMAIN DigitVal
    /\ LET y == 1000 * DigitVal[s[1]] + 100 * DigitVal[s[2]]
                + 10 * DigitVal[s[3]] + DigitVal[s[4]]
           m == 10 * DigitVal[s[6]] + DigitVal[s[7]]
           d == 10 * DigitVal[s[9]] + DigitVal[s[10]]
       IN  y >= 1 /\ m \in 1..12 /\ d \in 1..DaysInMonth(y, m)

(* C9: a call of _init_chinese_rest_days whose request fails or is answered
   with an error status raises a fetch error, one answered with a body that is
   not a list of ISO dates raises a parse error, and neither loads the
   holidays. *)
C9_FetchAndParseErrors ==
    (IsInit /\ Requested(HolidayUrl)) =>
        LET rsp == result.rsp
            failed == rsp.raises \/ rsp.status_code >= 400
            malformed == ~rsp.is_json
                         \/ \E i \in DOMAIN rsp.json : ~IsIsoDate(rsp.json[i])
        IN  /\ failed =>
                  /\ result.err \in {"ConnectionError", "HTTPError"}
                  /\ rest_days_df = None
            /\ (~failed /\ malformed) =>
                  /\ result.err \in {"JSONDecodeError", "ValueError"}
                  /\ rest_days_df = None

HasIn(seq, x) == \E i \in DOMAIN seq : seq[i] = x

(* C5: under every interleaving of the callers at most one request goes to
   each source, each cache is written at most once, and no caller computes
   its calendar from a holiday frame that is absent or lacks a column. *)
C5_AtMostOneFetch ==
    /\ Cardinality({t \in Threads : HasIn(threads[t].requests, HolidayUrl)}) <= 1
    /\ Cardinality({t \in Threads : HasIn(threads[t].requests, ContTableUrl)}) <= 1
    /\ Cardinality({t \in Threads : HasIn(threads[t].writes, "rest_days_df")}) <= 1
    /\ Cardinality({t \in Threads : HasIn(threads[t].writes, "continuous")}) <= 1
    /\ \A t \in Threads :
           threads[t].df # None =>
               /\ threads[t].saw # None
               /\ threads[t].saw[1].columns = {"date", "trading_restdays"}

====
